---- MODULE Spec2Model ----
(***************************************************************************)
(* The server-side action dispatcher of the RPC package                    *)
(* (packages/rpc/src/server/action.ts, class RpcServerAction): the three   *)
(* tables observables, observableSubjects and collections, the type cache, *)
(* the handlers handleActionTypes, handleAction and handle, and the push   *)
(* sources (rxjs Observable, Subject, BehaviorSubject) and collections     *)
(* whose callbacks send frames through the response of the message that    *)
(* created them.                                                           *)
(***************************************************************************)
EXTENDS Integers, Sequences, FiniteSets, TLC

\* ---------------------------------------------------------------- bounds
MaxCallId == 1
MaxSubId == 1
MaxValue == 1
MaxItem == 1
MaxBatch == 2
MaxHist == 2

CallIds == 1..MaxCallId
SubIds == 1..MaxSubId
Values == 1..MaxValue
Items == 1..MaxItem

\* ------------------------------------------------- controllers and types
\* The controller registry handed to the constructor: one controller "c1"
\* with the action "m" (a well declared method) and the action "g" (declared
\* to return a wrapper type without @t.generic).
Controllers == {"c1"}
ControllerIds == {"c1", "cx"}
Methods == {"m", "g", "mx"}
getActions(controller) == IF controller = "c1" THEN {"m", "g"} ELSE {}
ReturnsWrapper(method) == method = "g"
HasGeneric(method) == method # "g"

CacheId(controller, method) == <<controller, method>>

\* loadTypes without the lookup in the cache: the types are built anew on
\* every call and the key is bound to the new object.
loadTypesNoCache(c, controller, method) ==
    IF controller \notin Controllers
    THEN [err |-> "No controller registered", cache |-> c]
    ELSE IF method \notin getActions(controller)
    THEN [err |-> "Action unknown", cache |-> c]
    ELSE IF ReturnsWrapper(method) /\ ~HasGeneric(method)
    THEN [err |-> "MissingGeneric", cache |-> c]
    ELSE [err |-> "",
          cache |-> [k \in DOMAIN c \cup {CacheId(controller, method)} |->
                        IF k # CacheId(controller, method) THEN c[k]
                        ELSE [build |-> IF k \in DOMAIN c THEN 2 ELSE 1,
                              collectionSchema |-> FALSE]]]

\* loadTypes that binds the key before it has looked at the generic type of
\* the result.
loadTypesEarlyStore(c, controller, method) ==
    IF CacheId(controller, method) \in DOMAIN c
    THEN [err |-> "", cache |-> c]
    ELSE IF controller \notin Controllers
    THEN [err |-> "No controller registered", cache |-> c]
    ELSE IF method \notin getActions(controller)
    THEN [err |-> "Action unknown", cache |-> c]
    ELSE [err |-> IF ReturnsWrapper(method) /\ ~HasGeneric(method)
                  THEN "MissingGeneric" ELSE "",
          cache |-> [k \in DOMAIN c \cup {CacheId(controller, method)} |->
                        IF k \in DOMAIN c THEN c[k]
                        ELSE [build |-> 1, collectionSchema |-> FALSE]]]

\* loadTypes(controller, method) on the cache c: the error thrown ("" when
\* none) and the cache afterwards. An entry records which build of the types
\* of its key it is (build) and whether its collectionSchema is there yet.
loadTypes(c, controller, method) ==
    IF CacheId(controller, method) \in DOMAIN c
    THEN [err |-> "", cache |-> c]
    ELSE IF controller \notin Controllers
    THEN [err |-> "No controller registered", cache |-> c]
    ELSE IF method \notin getActions(controller)
    THEN [err |-> "Action unknown", cache |-> c]
    ELSE IF ReturnsWrapper(method) /\ ~HasGeneric(method)
    THEN [err |-> "MissingGeneric", cache |-> c]
    ELSE [err |-> "",
          cache |-> [k \in DOMAIN c \cup {CacheId(controller, method)} |->
                        IF k \in DOMAIN c THEN c[k]
                        ELSE [build |-> 1, collectionSchema |-> FALSE]]]

\* --------------------------------------------------------------- results
\* What the awaited controller method can yield: a class of the value it
\* returns, or a rejection.
ResultClasses ==
    {"Plain", "EntitySubject", "Collection", "Observable", "Subject", "BehaviorSubject"}

\* The class each result class directly extends ("" for none).
Extends(class) ==
    CASE class = "EntitySubject" -> "BehaviorSubject"
      [] class = "BehaviorSubject" -> "Subject"
      [] class = "Collection" -> "Subject"
      [] class = "Subject" -> "Observable"
      [] OTHER -> ""

RECURSIVE InstanceOf(_, _)
InstanceOf(class, base) ==
    IF class = "" THEN FALSE
    ELSE IF class = base THEN TRUE
    ELSE InstanceOf(Extends(class), base)

\* The instanceof chain with the test for Observable moved to the front.
ClassifyObservableFirst(result) ==
    IF InstanceOf(result, "Observable") THEN "observable"
    ELSE IF InstanceOf(result, "EntitySubject") THEN "entity"
    ELSE IF InstanceOf(result, "Collection") THEN "collection"
    ELSE "plain"

\* The branch of the instanceof chain of handleAction that a result takes.
ClassifyNoEntity(result) ==
    IF InstanceOf(result, "Collection") THEN "collection"
    ELSE IF InstanceOf(result, "Observable") THEN "observable"
    ELSE "plain"

Classify(result) ==
    IF InstanceOf(result, "EntitySubject") THEN "entity"
    ELSE IF InstanceOf(result, "Collection") THEN "collection"
    ELSE IF InstanceOf(result, "Observable") THEN "observable"
    ELSE "plain"

\* ActionObservableTypes announced for a push source.
ObservableType(result) ==
    IF InstanceOf(result, "BehaviorSubject") THEN "behaviorSubject"
    ELSE IF InstanceOf(result, "Subject") THEN "subject"
    ELSE "observable"

\* ---------------------------------------------------------------- frames
\* One outbound frame: id is the id of the inbound message whose response
\* sent it, via the type of that inbound message, sub and v the body's id and
\* v (0 when the body has none), msg the error message, parts the sub-frames
\* of a composite.
Frame(id, via, type, sub, v, msg, parts) ==
    [id |-> id, via |-> via, type |-> type, sub |-> sub, v |-> v,
     msg |-> msg, parts |-> parts]

\* response.reply
Reply(id, via, type, sub, v) == Frame(id, via, type, sub, v, "", <<>>)

\* response.error
ErrorFrame(id, via, msg) == Frame(id, via, "Error", 0, 0, msg, <<>>)

\* response.composite(type).add(...)...send()
Composite(id, via, type, parts) == Frame(id, via, type, 0, 0, "", parts)

Part(type, items) == [type |-> type, items |-> items]

StreamFrameTypes ==
    {"ResponseActionObservableNext", "ResponseActionObservableError",
     "ResponseActionObservableComplete"}


\* ----------------------------------------------------------------- state
VARIABLES
    cachedActionsTypes,  \* cache id -> ActionTypes (its lazily built collectionSchema)
    observables,         \* call id -> [observable, subscriptions]
    observableSubjects,  \* call id -> [subscription]
    collections,         \* call id -> [unsubscribe]
    subs,                \* call id -> sub id -> the object `sub` of that subscription
    src,                 \* call id -> the push source observables[id].observable refers to
    coll,                \* call id -> the collection a call returned, with its batcher
    pc,                  \* call id -> where handleAction of that call stands
    call,                \* call id -> the current call: what its method yields
    hist,                \* call id -> types of the first frames sent through the call's response
    sent,                \* the frames the last step sent
    thrown,              \* the error the last handler let escape ("" when none)
    last,                \* the handler or callback that ran last
    closed               \* the transport of this connection has closed

vars ==
    <<cachedActionsTypes, observables, observableSubjects, collections, subs, src,
      coll, pc, call, hist, sent, thrown, last, closed>>

tables == <<observables, observableSubjects, collections>>

EmptyFn == [k \in {} |-> 0]
Put(f, k, v) == [x \in DOMAIN f \cup {k} |-> IF x = k THEN v ELSE f[x]]
Delete(f, k) == [x \in DOMAIN f \ {k} |-> f[x]]

NoSource == [class |-> "", status |-> "open", value |-> 0, auto |-> FALSE, observers |-> <<>>]
NoCollection ==
    [exists |-> FALSE, items |-> {}, unsubscribed |-> FALSE, eventsSub |-> FALSE,
     closed |-> FALSE, batch |-> <<>>, scheduled |-> FALSE, late |-> FALSE]
NoCall == [types |-> <<"", "">>, result |-> "", invalid |-> FALSE, invoked |-> FALSE]
Op(op, id, sub) == [op |-> op, id |-> id, sub |-> sub]

Init ==
    /\ cachedActionsTypes = EmptyFn
    /\ observables = EmptyFn
    /\ observableSubjects = EmptyFn
    /\ collections = EmptyFn
    /\ subs = [c \in CallIds |-> EmptyFn]
    /\ src = [c \in CallIds |-> NoSource]
    /\ coll = [c \in CallIds |-> NoCollection]
    /\ pc = [c \in CallIds |-> "idle"]
    /\ call = [c \in CallIds |-> NoCall]
    /\ hist = [c \in CallIds |-> <<>>]
    /\ sent = <<>>
    /\ thrown = ""
    /\ last = Op("", 0, 0)
    /\ closed = FALSE

\* ------------------------------------------------------- sending frames
RECURSIVE TypesVia(_, _)
\* The types of the frames of fs that the response of call c sent.
TypesVia(fs, c) ==
    IF fs = <<>> THEN <<>>
    ELSE IF Head(fs).id = c /\ Head(fs).via = "Action"
         THEN <<Head(fs).type>> \o TypesVia(Tail(fs), c)
         ELSE TypesVia(Tail(fs), c)

Prefix(s, n) == IF Len(s) <= n THEN s ELSE SubSeq(s, 1, n)

\* The step sends the frames fs.
Send(fs) ==
    /\ sent' = fs
    /\ hist' = [c \in CallIds |-> Prefix(hist[c] \o TypesVia(fs, c), MaxHist)]

\* The step starts a new call on cid and sends the frames fs.
SendNew(cid, fs) ==
    /\ sent' = fs
    /\ hist' = [c \in CallIds |->
                  IF c = cid THEN Prefix(TypesVia(fs, c), MaxHist)
                  ELSE Prefix(hist[c] \o TypesVia(fs, c), MaxHist)]

\* ------------------------------------------- callbacks of subscriptions
\* The callbacks handle() passes to observable.subscribe for sub id sid.
subNext(cid, sid, v, active) ==
    IF ~active THEN <<>>
    ELSE <<Reply(cid, "ActionObservableSubscribe", "ResponseActionObservableNext", sid, v)>>

subError(cid, sid, active) ==
    <<Frame(cid, "ActionObservableSubscribe", "ResponseActionObservableError", sid, 0,
            "stream error", <<>>)>>

subComplete(cid, sid, active) ==
    <<Reply(cid, "ActionObservableSubscribe", "ResponseActionObservableComplete", sid, 0)>>

subCallback(kind, cid, sid, v, active) ==
    CASE kind = "next" -> subNext(cid, sid, v, active)
      [] kind = "error" -> subError(cid, sid, active)
      [] kind = "complete" -> subComplete(cid, sid, active)

\* The callbacks handleAction passes to result.subscribe for a subject.
subjectCallback(kind, cid, v) ==
    CASE kind = "next" ->
            <<Reply(cid, "Action", "ResponseActionObservableNext", cid, v)>>
      [] kind = "error" ->
            <<Frame(cid, "Action", "ResponseActionObservableError", cid, 0,
                    "stream error", <<>>)>>
      [] kind = "complete" ->
            <<Reply(cid, "Action", "ResponseActionObservableComplete", cid, 0)>>

RECURSIVE ToObservers(_, _, _, _, _)
\* A subject calls the callback of each of its observers, in the order they
\* subscribed.
ToObservers(obs, kind, cid, v, objs) ==
    IF obs = <<>> THEN <<>>
    ELSE subCallback(kind, cid, Head(obs), v, objs[Head(obs)].active)
            \o ToObservers(Tail(obs), kind, cid, v, objs)

\* Subscription.unsubscribe() of the subscriber sid: it leaves the observers.
RemoveObserver(obs, sid) == SelectSeq(obs, LAMBDA o : o # sid)


\* --------------------------------------------------- handleActionTypes
\* handleActionTypes of a message with id mid for (controller, method).
handleActionTypes(mid, controller, method) ==
    LET t == loadTypes(cachedActionsTypes, controller, method) IN
    /\ cachedActionsTypes' = t.cache
    /\ thrown' = t.err
    /\ Send(IF t.err = "" THEN <<Reply(mid, "ActionType", "ResponseActionType", 0, 0)>>
            ELSE <<>>)
    /\ last' = Op("handleActionTypes", mid, 0)
    /\ UNCHANGED <<observables, observableSubjects, collections, subs, src, coll, pc, call>>

\* -------------------------------------------------------- handleAction
\* What can go wrong in one Action message before the method is invoked, and
\* what the method yields.
Faults == {"none", "parseBody", "parseArgs", "injector", "decode", "invalid"}
Outcomes == ResultClasses \cup {"throw", "reject"}
Requests ==
    [controller : ControllerIds, method : Methods, fault : Faults, outcome : Outcomes]

\* A call id is unique for the duration of its call: the client reuses an id
\* only when the call that had it is over (its future settled, its collection
\* unsubscribed and flushed, its push source terminated).
IdFree(cid) ==
    /\ pc[cid] # "await"
    /\ cid \notin DOMAIN collections
    /\ ~coll[cid].scheduled
    /\ cid \in DOMAIN observables => src[cid].status # "open"

\* The statements of handleAction before its try block, on the cache c: the
\* error that escapes ("" when none), the cache afterwards, and whether the
\* validator found the decoded arguments valid.
Prelude(c, req) ==
    IF req.fault = "parseBody"
    THEN [escaped |-> "parseBody", cache |-> c, valid |-> FALSE]
    ELSE IF req.controller \notin Controllers
    THEN [escaped |-> "No controller registered", cache |-> c, valid |-> FALSE]
    ELSE LET t == loadTypes(c, req.controller, req.method) IN
         IF t.err # ""
         THEN [escaped |-> t.err, cache |-> t.cache, valid |-> FALSE]
         ELSE IF req.fault \in {"parseArgs", "injector", "decode"}
         THEN [escaped |-> req.fault, cache |-> t.cache, valid |-> FALSE]
         ELSE [escaped |-> "", cache |-> t.cache, valid |-> req.fault # "invalid"]

\* Whether handleAction goes on to call the controller method after the
\* validator returned valid (TRUE: no failure) or not.
InvokesNoCheck(valid) == TRUE

Invokes(valid) == valid

\* handleAction up to its await (or to the end, when it does not get there).
handleAction(cid, req) ==
    /\ IdFree(cid)
    /\ LET p == Prelude(cachedActionsTypes, req)
           types == CacheId(req.controller, req.method)
       IN
       /\ cachedActionsTypes' = p.cache
       /\ thrown' = p.escaped
       /\ IF p.escaped # ""
          THEN /\ pc' = [pc EXCEPT ![cid] = "done"]
               /\ call' = [call EXCEPT ![cid] = NoCall]
               /\ SendNew(cid, <<>>)
          ELSE IF ~Invokes(p.valid)
          THEN /\ pc' = [pc EXCEPT ![cid] = "done"]
               /\ call' = [call EXCEPT ![cid] =
                              [types |-> types, result |-> "", invalid |-> TRUE,
                               invoked |-> FALSE]]
               /\ SendNew(cid, <<ErrorFrame(cid, "Action", "ValidationError")>>)
          ELSE IF req.outcome = "throw"
          THEN /\ pc' = [pc EXCEPT ![cid] = "done"]
               /\ call' = [call EXCEPT ![cid] =
                              [types |-> types, result |-> "throw", invalid |-> ~p.valid,
                               invoked |-> TRUE]]
               /\ SendNew(cid, <<ErrorFrame(cid, "Action", "InvocationError")>>)
          ELSE /\ pc' = [pc EXCEPT ![cid] = "await"]
               /\ call' = [call EXCEPT ![cid] =
                              [types |-> types, result |-> req.outcome, invalid |-> ~p.valid,
                               invoked |-> TRUE]]
               /\ SendNew(cid, <<>>)
    /\ last' = Op("handleAction", cid, 0)
    /\ UNCHANGED <<observables, observableSubjects, collections, subs, src, coll>>

\* The future of the method rejected: the catch block.
rejected(cid) ==
    /\ Send(<<ErrorFrame(cid, "Action", "InvocationError")>>)
    /\ UNCHANGED <<cachedActionsTypes, observables, observableSubjects, collections,
                   subs, src, coll>>

\* result instanceof EntitySubject
entityBranch(cid) ==
    /\ Send(<<Reply(cid, "Action", "ResponseEntity", 0, 0)>>)
    /\ UNCHANGED <<cachedActionsTypes, observables, observableSubjects, collections,
                   subs, src, coll>>

\* the plain branch
plainBranch(cid) ==
    /\ Send(<<Reply(cid, "Action", "ResponseActionSimple", 0, 0)>>)
    /\ UNCHANGED <<cachedActionsTypes, observables, observableSubjects, collections,
                   subs, src, coll>>

\* The sub-frames of the opening composite of a collection with the items its.
OpeningPartsStateFirst(its) ==
    <<Part("ResponseActionCollectionState", {}),
      Part("ResponseActionCollectionModel", {}),
      Part("ResponseActionCollectionSet", its)>>

OpeningParts(its) ==
    <<Part("ResponseActionCollectionModel", {}),
      Part("ResponseActionCollectionState", {}),
      Part("ResponseActionCollectionSet", its)>>

\* result instanceof Collection: the collection holds the items its.
collectionBranch(cid, its) ==
    /\ cachedActionsTypes' =
          [cachedActionsTypes EXCEPT ![call[cid].types].collectionSchema = TRUE]
    /\ Send(<<Composite(cid, "Action", "ResponseActionCollection", OpeningParts(its))>>)
    /\ coll' = [coll EXCEPT ![cid] =
                   [exists |-> TRUE, items |-> its, unsubscribed |-> FALSE,
                    eventsSub |-> TRUE, closed |-> FALSE, batch |-> <<>>,
                    scheduled |-> FALSE, late |-> FALSE]]
    /\ collections' = Put(collections, cid, [unsubscribe |-> cid])
    /\ UNCHANGED <<observables, observableSubjects, subs, src>>

\* The frames of the observable branch: those the subject's subscribe call
\* sends at once (a BehaviorSubject replays its value v), then the
\* announcement.
observableFrames(cid, class, v) ==
    (IF InstanceOf(class, "BehaviorSubject") THEN subjectCallback("next", cid, v) ELSE <<>>)
        \o <<Frame(cid, "Action", "ResponseActionObservable", 0, 0,
                   ObservableType(class), <<>>)>>

\* result instanceof Observable: a source of class `class`; a BehaviorSubject
\* holds the value v.
observableBranch(cid, class, v) ==
    /\ observables' = Put(observables, cid, [observable |-> cid, subscriptions |-> {}])
    /\ subs' = [subs EXCEPT ![cid] = EmptyFn]
    /\ src' = [src EXCEPT ![cid] =
                  [class |-> class, status |-> "open",
                   value |-> IF InstanceOf(class, "BehaviorSubject") THEN v ELSE 0,
                   auto |-> InstanceOf(class, "Subject"), observers |-> <<>>]]
    /\ observableSubjects' =
          IF InstanceOf(class, "Subject")
          THEN Put(observableSubjects, cid, [subscription |-> cid])
          ELSE observableSubjects
    /\ Send(observableFrames(cid, class, v))
    /\ UNCHANGED <<cachedActionsTypes, collections, coll>>

\* handleAction from its await on: the future has settled.
resumeAction(cid) ==
    /\ pc[cid] = "await"
    /\ pc' = [pc EXCEPT ![cid] = "done"]
    /\ LET result == call[cid].result
           branch == Classify(result)
       IN
       IF result = "reject" THEN rejected(cid)
       ELSE IF branch = "entity" THEN entityBranch(cid)
       ELSE IF branch = "collection" THEN \E its \in SUBSET Items : collectionBranch(cid, its)
       ELSE IF branch = "observable" THEN \E v \in Values : observableBranch(cid, result, v)
       ELSE plainBranch(cid)
    /\ thrown' = ""
    /\ last' = Op("resumeAction", cid, 0)
    /\ UNCHANGED call


\* -------------------------------------------------------------- handle
\* What a plain (cold) Observable does inside subscribe(), before it returns.
Scripts == {<<>>, <<"next">>, <<"next", "complete">>, <<"complete">>, <<"error">>}

RECURSIVE RunScript(_, _, _, _)
\* The frames of the callbacks a script calls for the new subscription sid,
\* whose object is active.
RunScript(script, cid, sid, v) ==
    IF script = <<>> THEN <<>>
    ELSE subCallback(Head(script), cid, sid, v, TRUE) \o RunScript(Tail(script), cid, sid, v)

Terminates(script) ==
    \E i \in 1..Len(script) : script[i] \in {"complete", "error"}

\* The frames observable.subscribe() of the source s sends before it returns
\* for the new subscription sid: a terminated subject errors or completes it,
\* a BehaviorSubject replays its value, a cold Observable runs its script.
SubscribeFrames(s, cid, sid, script, v) ==
    IF InstanceOf(s.class, "Subject")
    THEN IF s.status = "errored" THEN subCallback("error", cid, sid, 0, TRUE)
         ELSE IF s.status = "completed" THEN subCallback("complete", cid, sid, 0, TRUE)
         ELSE IF InstanceOf(s.class, "BehaviorSubject")
              THEN subCallback("next", cid, sid, s.value, TRUE)
              ELSE <<>>
    ELSE RunScript(script, cid, sid, v)

\* Whether the new subscription stays open after subscribe() returned.
StaysOpen(s, script) ==
    IF InstanceOf(s.class, "Subject") THEN s.status = "open" ELSE ~Terminates(script)

\* Whether handle() refuses a subscribe for a sub id the entry already holds.
AlreadyCreatedNever(entry, sid) == FALSE

AlreadyCreated(entry, sid) == sid \in entry.subscriptions

\* case RpcTypes.ActionObservableSubscribe
ActionObservableSubscribe(cid, sid) ==
    /\ last' = Op("ActionObservableSubscribe", cid, sid)
    /\ thrown' = ""
    /\ UNCHANGED <<cachedActionsTypes, observableSubjects, collections, coll, pc, call>>
    /\ IF cid \notin DOMAIN observables
       THEN /\ Send(<<ErrorFrame(cid, "ActionObservableSubscribe", "No observable found")>>)
            /\ UNCHANGED <<observables, subs, src>>
       ELSE IF AlreadyCreated(observables[cid], sid)
       THEN /\ Send(<<ErrorFrame(cid, "ActionObservableSubscribe",
                                 "Subscription already created")>>)
            /\ UNCHANGED <<observables, subs, src>>
       ELSE \E script \in Scripts, v \in Values :
            /\ InstanceOf(src[cid].class, "Subject") => script = <<>>
            /\ observables' =
                  [observables EXCEPT ![cid].subscriptions = @ \cup {sid}]
            /\ subs' = [subs EXCEPT ![cid] = Put(@, sid, [active |-> TRUE])]
            /\ src' = [src EXCEPT ![cid].observers =
                          IF StaysOpen(src[cid], script) THEN Append(@, sid) ELSE @]
            /\ Send(SubscribeFrames(src[cid], cid, sid, script, v))

\* The case ResponseActionCollectionUnsubscribe without its answer to a call
\* id that has no collection: the message is dropped silently.
ResponseActionCollectionUnsubscribeSilent(cid) ==
    /\ last' = Op("ResponseActionCollectionUnsubscribe", cid, 0)
    /\ thrown' = ""
    /\ UNCHANGED <<cachedActionsTypes, observables, observableSubjects, subs, src, pc, call>>
    /\ coll' = [coll EXCEPT ![cid].unsubscribed = cid \in DOMAIN collections \/ @,
                             ![cid].eventsSub = cid \notin DOMAIN collections /\ @,
                             ![cid].closed = cid \in DOMAIN collections \/ @]
    /\ collections' = Delete(collections, cid)
    /\ Send(<<>>)

\* case RpcTypes.ResponseActionCollectionUnsubscribe
ResponseActionCollectionUnsubscribe(cid) ==
    /\ last' = Op("ResponseActionCollectionUnsubscribe", cid, 0)
    /\ thrown' = ""
    /\ UNCHANGED <<cachedActionsTypes, observables, observableSubjects, subs, src, pc, call>>
    /\ IF cid \notin DOMAIN collections
       THEN /\ Send(<<ErrorFrame(cid, "ResponseActionCollectionUnsubscribe",
                                 "No collection found")>>)
            /\ UNCHANGED <<collections, coll>>
       ELSE /\ coll' = [coll EXCEPT ![cid].unsubscribed = TRUE,
                                    ![cid].eventsSub = FALSE,
                                    ![cid].closed = TRUE]
            /\ collections' = Delete(collections, cid)
            /\ Send(<<>>)

\* sub.sub.unsubscribe() in ActionObservableUnsubscribe, on the observers obs.
CancelSkipped(obs, sid) == obs

Cancel(obs, sid) == RemoveObserver(obs, sid)

\* case RpcTypes.ActionObservableUnsubscribe
ActionObservableUnsubscribe(cid, sid) ==
    /\ last' = Op("ActionObservableUnsubscribe", cid, sid)
    /\ thrown' = ""
    /\ UNCHANGED <<cachedActionsTypes, observableSubjects, collections, coll, pc, call>>
    /\ IF cid \notin DOMAIN observables
       THEN /\ Send(<<ErrorFrame(cid, "ActionObservableUnsubscribe", "No observable found")>>)
            /\ UNCHANGED <<observables, subs, src>>
       ELSE IF sid \notin observables[cid].subscriptions
       THEN /\ Send(<<ErrorFrame(cid, "ActionObservableUnsubscribe",
                                 "No subscription found")>>)
            /\ UNCHANGED <<observables, subs, src>>
       ELSE /\ subs' = [subs EXCEPT ![cid][sid].active = FALSE]
            /\ src' = [src EXCEPT ![cid].observers = Cancel(@, sid)]
            /\ observables' = [observables EXCEPT ![cid].subscriptions = @ \ {sid}]
            /\ Send(<<>>)

\* The case ActionObservableSubjectUnsubscribe cancelling the clients'
\* subscriptions on the subject along with the server's own.
ActionObservableSubjectUnsubscribeAll(cid) ==
    /\ last' = Op("ActionObservableSubjectUnsubscribe", cid, 0)
    /\ thrown' = ""
    /\ UNCHANGED <<cachedActionsTypes, observables, observableSubjects, collections,
                   subs, coll, pc, call>>
    /\ IF cid \notin DOMAIN observableSubjects
       THEN /\ Send(<<ErrorFrame(cid, "ActionObservableSubjectUnsubscribe",
                                 "No observable found")>>)
            /\ UNCHANGED src
       ELSE /\ src' = [src EXCEPT ![cid].auto = FALSE, ![cid].observers = <<>>]
            /\ Send(<<>>)

\* case RpcTypes.ActionObservableSubjectUnsubscribe
ActionObservableSubjectUnsubscribe(cid) ==
    /\ last' = Op("ActionObservableSubjectUnsubscribe", cid, 0)
    /\ thrown' = ""
    /\ UNCHANGED <<cachedActionsTypes, observables, observableSubjects, collections,
                   subs, coll, pc, call>>
    /\ IF cid \notin DOMAIN observableSubjects
       THEN /\ Send(<<ErrorFrame(cid, "ActionObservableSubjectUnsubscribe",
                                 "No observable found")>>)
            /\ UNCHANGED src
       ELSE /\ src' = [src EXCEPT ![cid].auto = FALSE]
            /\ Send(<<>>)

\* ----------------------------------------------------- the push sources
\* A subject emits to all its subscribers: the server's own subscription
\* first, then the clients' in the order they subscribed.
subjectEmits(cid, kind, v) ==
    /\ InstanceOf(src[cid].class, "Subject")
    /\ src[cid].status = "open"
    /\ Send((IF src[cid].auto THEN subjectCallback(kind, cid, v) ELSE <<>>)
              \o ToObservers(src[cid].observers, kind, cid, v, subs[cid]))
    /\ src' = [src EXCEPT ![cid] =
                  IF kind = "next"
                  THEN [@ EXCEPT !.value = IF InstanceOf(src[cid].class, "BehaviorSubject")
                                           THEN v ELSE 0]
                  ELSE [@ EXCEPT !.status = IF kind = "error" THEN "errored" ELSE "completed",
                                 !.auto = FALSE, !.observers = <<>>]]
    /\ last' = Op("subjectEmits", cid, 0)
    /\ thrown' = ""
    /\ UNCHANGED <<cachedActionsTypes, observables, observableSubjects, collections,
                   subs, coll, pc, call>>

\* A cold observable emits to one of its subscribers.
observableEmits(cid, sid, kind, v) ==
    /\ src[cid].class = "Observable"
    /\ \E i \in 1..Len(src[cid].observers) : src[cid].observers[i] = sid
    /\ Send(subCallback(kind, cid, sid, v, subs[cid][sid].active))
    /\ src' = [src EXCEPT ![cid].observers =
                  IF kind = "next" THEN @ ELSE RemoveObserver(@, sid)]
    /\ last' = Op("observableEmits", cid, sid)
    /\ thrown' = ""
    /\ UNCHANGED <<cachedActionsTypes, observables, observableSubjects, collections,
                   subs, coll, pc, call>>


\* ------------------------------------------------------ the collections
\* The events a collection raises: items added, items removed, the whole
\* content set anew, the state changed.
Events ==
    [type : {"add", "remove"}, items : SUBSET Items \ {{}}]
        \cup [type : {"set"}, items : SUBSET Items]
        \cup [type : {"state"}, items : {{}}]

\* The content of the collection after the event ev.
After(its, ev) ==
    CASE ev.type = "add" -> its \cup ev.items
      [] ev.type = "remove" -> its \ ev.items
      [] ev.type = "set" -> ev.items
      [] OTHER -> its

\* The sub-frame of an event with the content a set event was raised with.
ChangePartAtEvent(ev, all) ==
    CASE ev.type = "add" -> Part("ResponseActionCollectionAdd", ev.items)
      [] ev.type = "remove" -> Part("ResponseActionCollectionRemove", ev.items)
      [] ev.type = "set" -> Part("ResponseActionCollectionSet", ev.items)
      [] OTHER -> Part("ResponseActionCollectionState", {})

\* The sub-frame the batch callback adds for the event ev when the collection
\* holds the items all.
ChangePart(ev, all) ==
    CASE ev.type = "add" -> Part("ResponseActionCollectionAdd", ev.items)
      [] ev.type = "remove" -> Part("ResponseActionCollectionRemove", ev.items)
      [] ev.type = "set" -> Part("ResponseActionCollectionSet", all)
      [] OTHER -> Part("ResponseActionCollectionState", {})

\* The sub-frames of a change composite, one per event of the batch.
ChangePartsReversed(batch, all) ==
    [i \in 1..Len(batch) |-> ChangePart(batch[Len(batch) + 1 - i], all)]

ChangeParts(batch, all) == [i \in 1..Len(batch) |-> ChangePart(batch[i], all)]

\* The callback handleAction gives collectForMicrotask, called with the batch
\* when the collection's closure flag `unsubscribed` has the value dropped.
FlushFramesNoCheck(cid, batch, all, dropped) ==
    <<Composite(cid, "Action", "ResponseActionCollectionChange", ChangeParts(batch, all))>>

FlushFrames(cid, batch, all, dropped) ==
    IF dropped THEN <<>>
    ELSE <<Composite(cid, "Action", "ResponseActionCollectionChange",
                     ChangeParts(batch, all))>>

\* The collection of call cid changes and raises the event ev; while the
\* events subscription is open, collectForMicrotask queues the event and
\* schedules its microtask.
collectionEvent(cid, ev) ==
    /\ coll[cid].exists
    /\ coll[cid].eventsSub => Len(coll[cid].batch) < MaxBatch
    /\ coll' = [coll EXCEPT ![cid] =
                   [@ EXCEPT !.items = After(@, ev),
                             !.batch = IF coll[cid].eventsSub THEN Append(@, ev) ELSE @,
                             !.scheduled = coll[cid].eventsSub \/ @]]
    /\ Send(<<>>)
    /\ last' = Op("collectionEvent", cid, 0)
    /\ thrown' = ""
    /\ UNCHANGED <<cachedActionsTypes, observables, observableSubjects, collections,
                   subs, src, pc, call>>

\* Observation kept with the collection (field late): the batch now delivered
\* holds a set event raised when the content was another than it is now.
SetOutdated(c) ==
    /\ ~c.unsubscribed
    /\ \E i \in 1..Len(c.batch) : c.batch[i].type = "set" /\ c.batch[i].items # c.items

\* The microtask of collectForMicrotask runs: the callback gets the batch.
flush(cid) ==
    /\ coll[cid].scheduled
    /\ Send(FlushFrames(cid, coll[cid].batch, coll[cid].items, coll[cid].unsubscribed))
    /\ coll' = [coll EXCEPT ![cid].batch = <<>>, ![cid].scheduled = FALSE,
                             ![cid].late = SetOutdated(coll[cid])]
    /\ last' = Op("flush", cid, 0)
    /\ thrown' = ""
    /\ UNCHANGED <<cachedActionsTypes, observables, observableSubjects, collections,
                   subs, src, pc, call>>

\* ------------------------------------------------------- specification
\* The transport closes. RpcServerAction has no method for it: its fields are
\* its only state and nothing in the class walks the three tables, so the
\* close cancels nothing and the entries with their subscriptions stay.
close ==
    /\ ~closed
    /\ closed' = TRUE
    /\ last' = Op("close", 0, 0)
    /\ thrown' = ""
    /\ sent' = <<>>
    /\ UNCHANGED <<cachedActionsTypes, observables, observableSubjects, collections,
                   subs, src, coll, pc, call, hist>>

\* A message is handled only while the transport is open.
Open == ~closed /\ closed' = closed

\* Sources, collections and futures outlive the transport.
Running == closed' = closed

Next ==
    \/ \E mid \in CallIds, c \in ControllerIds, m \in Methods :
          Open /\ handleActionTypes(mid, c, m)
    \/ \E cid \in CallIds, req \in Requests : Open /\ handleAction(cid, req)
    \/ \E cid \in CallIds : Running /\ resumeAction(cid)
    \/ \E cid \in CallIds, sid \in SubIds : Open /\ ActionObservableSubscribe(cid, sid)
    \/ \E cid \in CallIds : Open /\ ResponseActionCollectionUnsubscribe(cid)
    \/ \E cid \in CallIds, sid \in SubIds : Open /\ ActionObservableUnsubscribe(cid, sid)
    \/ \E cid \in CallIds : Open /\ ActionObservableSubjectUnsubscribe(cid)
    \/ \E cid \in CallIds, kind \in {"next", "error", "complete"}, v \in Values :
          Running /\ subjectEmits(cid, kind, v)
    \/ \E cid \in CallIds, sid \in SubIds, kind \in {"next", "error", "complete"},
          v \in Values : Running /\ observableEmits(cid, sid, kind, v)
    \/ \E cid \in CallIds, ev \in Events : Running /\ collectionEvent(cid, ev)
    \/ \E cid \in CallIds : Running /\ flush(cid)
    \/ close

Spec == Init /\ [][Next]_vars


\* ================================================================ claims
FramesOf(fs) == {fs[i] : i \in 1..Len(fs)}
PartTypes(f) == [i \in 1..Len(f.parts) |-> f.parts[i].type]
SubjectResult(c) == call[c].result \in {"Subject", "BehaviorSubject"}
\* The client unsubscribed sub id s of call c and has not subscribed it again.
Unsubscribed(c, s) == s \in DOMAIN subs[c] /\ ~subs[c][s].active

\* C1: for a call whose method returns a subject (a latched one included),
\* the announcement ResponseActionObservable goes out through the call's
\* response before any ResponseActionObservableNext.
C1_AnnouncementBeforeNext ==
    \A c \in CallIds :
        SubjectResult(c) =>
            \A i \in 1..Len(hist[c]) :
                hist[c][i] = "ResponseActionObservableNext" =>
                    \E j \in 1..(i - 1) : hist[c][j] = "ResponseActionObservable"

\* C2 as stated: once sub id s of call c is unsubscribed, no Next, Error or
\* Complete frame with id = s is sent for c.
C2_NoFrameWithSubIdAfterUnsubscribe ==
    \A c \in CallIds : \A f \in FramesOf(sent) :
        (f.id = c /\ f.type \in StreamFrameTypes /\ f.sub \in SubIds)
            => ~Unsubscribed(c, f.sub)

\* C2 amended: once sub id s of call c is unsubscribed, the client
\* subscription registered under s sends no Next, Error or Complete frame
\* any more, whatever the source emits (the server's own subscription to a
\* subject goes on sending frames with id = c, which may equal s).
C2_ClientSubscriptionSilentAfterUnsubscribe ==
    \A c \in CallIds : \A f \in FramesOf(sent) :
        (f.id = c /\ f.via = "ActionObservableSubscribe" /\ f.type \in StreamFrameTypes)
            => ~Unsubscribed(c, f.sub)

\* C2 witness: a subject emits after a client subscription to it was
\* unsubscribed, and only the server's own subscription forwards the value.
C2_Witness ==
    /\ last.op = "subjectEmits"
    /\ \E s \in SubIds : Unsubscribed(last.id, s)
    /\ sent # <<>>
    /\ \A f \in FramesOf(sent) : f.via = "Action"

\* C3: once the collection of call c is unsubscribed, no
\* ResponseActionCollectionChange frame is sent for c: not for later events,
\* not for a batch collected before the unsubscribe and flushed after it.
C3_NoChangeAfterUnsubscribe ==
    \A c \in CallIds : \A f \in FramesOf(sent) :
        (f.id = c /\ f.type = "ResponseActionCollectionChange") => ~coll[c].unsubscribed

\* C3 witness: the microtask ran after the unsubscribe and dropped its batch.
C3_Witness ==
    last.op = "flush" /\ coll[last.id].unsubscribed /\ sent = <<>>

\* C4: a call whose decoded arguments fail validation does not invoke the
\* method, sends exactly one Error frame (the validation error) and nothing
\* else, and registers no stream, subject or collection entry.
C4_InvalidNeverInvoked ==
    /\ [](\A c \in CallIds :
            call[c].invalid => /\ ~call[c].invoked
                               /\ pc[c] = "done"
                               /\ hist[c] = <<"Error">>)
    /\ [][\A c \in CallIds :
            (last'.op = "handleAction" /\ last'.id = c /\ call'[c].invalid)
                => /\ sent' = <<ErrorFrame(c, "Action", "ValidationError")>>
                   /\ thrown' = ""
                   /\ tables' = tables]_vars

\* C4 witness: handleAction just answered a call with invalid arguments.
C4_Witness ==
    last.op = "handleAction" /\ call[last.id].invalid /\ ~call[last.id].invoked

\* C5: no failure of handleAction escapes to its caller.
C5_NothingEscapes ==
    last.op = "handleAction" => thrown = ""

\* C6: a call whose method returns a plain value or an entity subject sends
\* exactly one frame (ResponseActionSimple, ResponseEntity) and leaves the
\* three tables as they were.
C6_OneFrameNoState ==
    /\ [](\A c \in CallIds :
            (pc[c] = "done" /\ call[c].result \in {"Plain", "EntitySubject"})
                => hist[c] = <<IF call[c].result = "Plain" THEN "ResponseActionSimple"
                               ELSE "ResponseEntity">>)
    /\ [][\A c \in CallIds :
            (last'.op = "resumeAction" /\ last'.id = c
                /\ call[c].result \in {"Plain", "EntitySubject"})
                => /\ Len(sent') = 1
                   /\ sent'[1].id = c
                   /\ tables' = tables]_vars

\* C6 witness: a call that returned an entity subject is done.
C6_Witness ==
    \E c \in CallIds :
        pc[c] = "done" /\ call[c].result = "EntitySubject" /\ last.op = "resumeAction"

\* C7: for a call whose method returns a collection, the first frame is one
\* ResponseActionCollection composite with the sub-frames Model, State, Set in
\* this order, and every ResponseActionCollectionChange comes after it.
C7_OpeningCompositeFirst ==
    /\ \A f \in FramesOf(sent) :
          f.type = "ResponseActionCollection" =>
              PartTypes(f) = <<"ResponseActionCollectionModel",
                               "ResponseActionCollectionState",
                               "ResponseActionCollectionSet">>
    /\ \A c \in CallIds :
          (pc[c] = "done" /\ Classify(call[c].result) = "collection")
              => /\ hist[c] # <<>>
                 /\ hist[c][1] = "ResponseActionCollection"
                 /\ \A i \in 2..Len(hist[c]) : hist[c][i] = "ResponseActionCollectionChange"
    /\ \A f \in FramesOf(sent) :
          f.type = "ResponseActionCollectionChange" =>
              /\ hist[f.id][1] = "ResponseActionCollection"
              /\ ~(last.op = "resumeAction")

\* C7 witness: a change composite was sent after the opening composite.
C7_Witness ==
    \E f \in FramesOf(sent) :
        /\ f.type = "ResponseActionCollectionChange"
        /\ hist[f.id] = <<"ResponseActionCollection", "ResponseActionCollectionChange">>

\* C8: a StreamEntry is in its table only while the stream is live: it is
\* gone once the stream completed or errored.
C8_EntryOnlyWhileLive ==
    \A c \in DOMAIN observables : src[c].status = "open"

\* C9: no call id is a key of both observables and collections.
C9_TablesDisjoint ==
    DOMAIN observables \cap DOMAIN collections = {}

\* C10: a subscribe for a sub id the StreamEntry already holds is answered
\* with the error 'Subscription already created', opens no second
\* subscription and leaves the existing one as it is; no source ever has two
\* live subscribers for one (call id, sub id).
C10_DuplicateSubscribeRefused ==
    /\ [](\A c \in CallIds : \A i, j \in 1..Len(src[c].observers) :
            src[c].observers[i] = src[c].observers[j] => i = j)
    /\ [][\A c \in DOMAIN observables : \A s \in observables[c].subscriptions :
            (last'.op = "ActionObservableSubscribe" /\ last'.id = c /\ last'.sub = s)
                => /\ sent' = <<ErrorFrame(c, "ActionObservableSubscribe",
                                           "Subscription already created")>>
                   /\ observables' = observables
                   /\ subs' = subs
                   /\ src' = src]_vars

\* C10 witness: a second subscribe for a live subscription was refused.
C10_Witness ==
    /\ last.op = "ActionObservableSubscribe"
    /\ \E f \in FramesOf(sent) : f.msg = "Subscription already created"
    /\ \E i \in 1..Len(src[last.id].observers) : src[last.id].observers[i] = last.sub


\* C11: loadTypes is idempotent: a key of the cache stays bound to the
\* ActionTypes object built first (nothing is built or compiled a second
\* time), a lookup of a cached key gives the cache back as it is, and no key
\* ever leaves the cache.
C11_CacheIdempotent ==
    /\ [](\A k \in DOMAIN cachedActionsTypes :
            /\ cachedActionsTypes[k].build = 1
            /\ loadTypes(cachedActionsTypes, k[1], k[2]) =
                  [err |-> "", cache |-> cachedActionsTypes])
    /\ [][\A k \in DOMAIN cachedActionsTypes :
            /\ k \in DOMAIN cachedActionsTypes'
            /\ cachedActionsTypes'[k].build = cachedActionsTypes[k].build]_vars

\* C11 witness: handleActionTypes answered for a key that an earlier
\* handleAction had cached (its collectionSchema is already built).
C11_Witness ==
    /\ last.op = "handleActionTypes"
    /\ sent # <<>>
    /\ \E k \in DOMAIN cachedActionsTypes : cachedActionsTypes[k].collectionSchema


\* The type of the sub-frame that stands for an event of a given type.
PartTypeOf(evType) ==
    CASE evType = "add" -> "ResponseActionCollectionAdd"
      [] evType = "remove" -> "ResponseActionCollectionRemove"
      [] evType = "set" -> "ResponseActionCollectionSet"
      [] OTHER -> "ResponseActionCollectionState"

\* C12: the events a subscribed collection raises within one tick are queued
\* in arrival order, and the flush sends them as exactly one
\* ResponseActionCollectionChange composite with one sub-frame per event in
\* that order; the next batch starts empty after the flush.
C12_BatchInArrivalOrder ==
    [][\A c \in CallIds :
        /\ (last'.op = "collectionEvent" /\ last'.id = c /\ coll[c].eventsSub)
              => /\ Len(coll'[c].batch) = Len(coll[c].batch) + 1
                 /\ SubSeq(coll'[c].batch, 1, Len(coll[c].batch)) = coll[c].batch
                 /\ coll'[c].scheduled
                 /\ sent' = <<>>
        /\ (last'.op = "flush" /\ last'.id = c /\ ~coll[c].unsubscribed)
              => /\ Len(sent') = 1
                 /\ sent'[1].type = "ResponseActionCollectionChange"
                 /\ sent'[1].id = c
                 /\ Len(sent'[1].parts) = Len(coll[c].batch)
                 /\ \A i \in 1..Len(coll[c].batch) :
                       /\ sent'[1].parts[i].type = PartTypeOf(coll[c].batch[i].type)
                       /\ coll[c].batch[i].type \in {"add", "remove"}
                             => sent'[1].parts[i].items = coll[c].batch[i].items
                 /\ coll'[c].batch = <<>>
                 /\ ~coll'[c].scheduled]_vars

\* C12 witness: one flush sent an Add and then a Remove in one composite.
C12_Witness ==
    /\ last.op = "flush"
    /\ Len(sent) = 1
    /\ PartTypes(sent[1]) = <<"ResponseActionCollectionAdd", "ResponseActionCollectionRemove">>


\* C13: a control message for a call id or subscription without a matching
\* entry is answered with exactly one Error frame and changes neither the
\* tables nor a subscription, source or collection.
C13_MissingEntryIsError ==
    [][\A c \in CallIds :
        LET noEntry ==
                \/ /\ last'.op \in {"ActionObservableSubscribe", "ActionObservableUnsubscribe"}
                   /\ c \notin DOMAIN observables
                \/ /\ last'.op = "ActionObservableUnsubscribe"
                   /\ c \in DOMAIN observables
                   /\ last'.sub \notin observables[c].subscriptions
                \/ /\ last'.op = "ActionObservableSubjectUnsubscribe"
                   /\ c \notin DOMAIN observableSubjects
                \/ /\ last'.op = "ResponseActionCollectionUnsubscribe"
                   /\ c \notin DOMAIN collections
        IN (last'.id = c /\ noEntry)
              => /\ Len(sent') = 1
                 /\ sent'[1].type = "Error"
                 /\ sent'[1].id = c
                 /\ sent'[1].via = last'.op
                 /\ sent'[1].msg \in {"No observable found", "No subscription found",
                                      "No collection found"}
                 /\ tables' = tables
                 /\ <<subs, src, coll>>' = <<subs, src, coll>>]_vars

\* C13 witness: an unsubscribe named a sub id its StreamEntry does not hold.
C13_Witness ==
    /\ last.op = "ActionObservableUnsubscribe"
    /\ last.id \in DOMAIN observables
    /\ Len(sent) = 1
    /\ sent[1].msg = "No subscription found"


\* C14: the close of the transport leaves no subscription on a source or on
\* a collection open (no auto-subscription, no client subscription, no
\* change subscription), and no callback of a source or a collection sends a
\* frame after it.
C14_ClosedCancelsEverything ==
    closed =>
        /\ last.op = "close" =>
              \A c \in CallIds :
                  /\ ~src[c].auto
                  /\ src[c].observers = <<>>
                  /\ ~coll[c].eventsSub
        /\ last.op \in {"subjectEmits", "observableEmits", "flush"} => sent = <<>>


\* The part of C15 about the method itself: a call whose method threw or
\* whose future rejected has sent the one Error frame and nothing else.
MethodFailureIsOneError ==
    \A c \in CallIds :
        (pc[c] = "done" /\ call[c].invoked /\ call[c].result \in {"throw", "reject"})
            => hist[c] = <<"Error">>

\* C15: a failure of the method (throw or rejected future) and a failure to
\* resolve the controller instance each end the call with exactly one Error
\* frame.
C15_FailureIsOneErrorFrame ==
    /\ MethodFailureIsOneError
    /\ (last.op = "handleAction" /\ thrown = "injector")
          => (Len(sent) = 1 /\ sent[1].type = "Error" /\ sent[1].id = last.id)


OpeningFrameTypes ==
    {"ResponseEntity", "ResponseActionCollection", "ResponseActionObservable",
     "ResponseActionSimple"}

\* The opening frame of a result, by its most specific class.
OpeningOf(result) ==
    CASE result = "EntitySubject" -> "ResponseEntity"
      [] result = "Collection" -> "ResponseActionCollection"
      [] result \in {"Observable", "Subject", "BehaviorSubject"} -> "ResponseActionObservable"
      [] OTHER -> "ResponseActionSimple"

\* C16: the settled result takes the first branch that matches it and no
\* other: the step sends the opening frame of that branch and of no other
\* branch, and only the table of that branch gets an entry (an entity subject
\* and a collection are observables too, yet register no StreamEntry).
C16_FirstMatchingBranchOnly ==
    [][\A c \in CallIds :
        (last'.op = "resumeAction" /\ last'.id = c /\ call[c].result \in ResultClasses)
            => LET r == call[c].result IN
               /\ {sent'[i].type : i \in 1..Len(sent')} \cap OpeningFrameTypes = {OpeningOf(r)}
               /\ Cardinality({i \in 1..Len(sent') : sent'[i].type \in OpeningFrameTypes}) = 1
               /\ r \in {"EntitySubject", "Plain"} => tables' = tables
               /\ r = "Collection" =>
                     /\ observables' = observables
                     /\ observableSubjects' = observableSubjects
                     /\ c \in DOMAIN collections'
               /\ r \in {"Observable", "Subject", "BehaviorSubject"} =>
                     /\ collections' = collections
                     /\ c \in DOMAIN observables'
                     /\ (c \in DOMAIN observableSubjects') = (r # "Observable")
                           \/ c \in DOMAIN observableSubjects]_vars

\* C16 witness: a collection, which is a subject and an observable as well,
\* was answered as a collection and has no StreamEntry.
C16_Witness ==
    /\ last.op = "resumeAction"
    /\ call[last.id].result = "Collection"
    /\ Len(sent) = 1
    /\ sent[1].type = "ResponseActionCollection"
    /\ last.id \in DOMAIN collections
    /\ last.id \notin DOMAIN observables
    /\ last.id \notin DOMAIN observableSubjects


\* Frames the server's own subscription on the subject of call c sent.
AutoFrames(fs, c) ==
    {i \in 1..Len(fs) : fs[i].via = "Action" /\ fs[i].id = c
                          /\ fs[i].type \in StreamFrameTypes}

\* C17: ActionObservableSubjectUnsubscribe for a registered subject cancels
\* the server's own subscription and nothing else: the clients' subscriptions
\* stay registered, active and subscribed; from then on the subject's
\* emissions send no frame through the call's response, and each active
\* client subscription still gets its Next under its own sub id.
C17_OnlyAutoSubscriptionCancelled ==
    [][\A c \in CallIds :
        /\ (last'.op = "ActionObservableSubjectUnsubscribe" /\ last'.id = c
              /\ c \in DOMAIN observableSubjects)
              => /\ ~src'[c].auto
                 /\ src'[c].observers = src[c].observers
                 /\ src'[c].status = src[c].status
                 /\ subs' = subs
                 /\ tables' = tables
                 /\ sent' = <<>>
        /\ (last'.op = "subjectEmits" /\ last'.id = c /\ ~src[c].auto)
              => /\ AutoFrames(sent', c) = {}
                 /\ \A i \in 1..Len(src[c].observers) :
                       LET s == src[c].observers[i] IN
                       (subs[c][s].active /\ src'[c].status = "open")
                           => \E j \in 1..Len(sent') :
                                 /\ sent'[j].via = "ActionObservableSubscribe"
                                 /\ sent'[j].type = "ResponseActionObservableNext"
                                 /\ sent'[j].id = c
                                 /\ sent'[j].sub = s
        /\ (last'.op \notin {"resumeAction", "subjectEmits"} \/ last'.id # c)
              => AutoFrames(sent', c) = {}]_vars

\* C17 witness: after the subject unsubscribe the subject emitted a value,
\* and the only frame is the Next of the client's subscription.
C17_Witness ==
    /\ last.op = "subjectEmits"
    /\ last.id \in DOMAIN observableSubjects
    /\ ~src[last.id].auto
    /\ src[last.id].status = "open"
    /\ Len(sent) = 1
    /\ sent[1].via = "ActionObservableSubscribe"
    /\ sent[1].type = "ResponseActionObservableNext"


\* C18: the ResponseActionCollectionSet sub-frame of a set event carries the
\* content the collection has when the batch is flushed, whatever content
\* the event was raised with.
C18_SetCarriesContentAtFlush ==
    [][\A c \in CallIds :
        (last'.op = "flush" /\ last'.id = c /\ ~coll[c].unsubscribed)
            => \A i \in 1..Len(coll[c].batch) :
                  coll[c].batch[i].type = "set"
                      => /\ sent'[1].parts[i].type = "ResponseActionCollectionSet"
                         /\ sent'[1].parts[i].items = coll[c].items
                         /\ coll'[c].items = coll[c].items]_vars

\* C18 witness: the collection changed between a set event and the flush, and
\* the frame shows the later content.
C18_Witness ==
    /\ last.op = "flush"
    /\ coll[last.id].late
    /\ Len(sent) = 1
    /\ \E i \in 1..Len(sent[1].parts) :
          /\ sent[1].parts[i].type = "ResponseActionCollectionSet"
          /\ sent[1].parts[i].items = coll[last.id].items


\* The error loadTypes owes a (controller, method) it cannot type ("" when it
\* can): unknown controller, unknown action, wrapper without element type.
LoadError(controller, method) ==
    IF controller \notin Controllers THEN "No controller registered"
    ELSE IF method \notin getActions(controller) THEN "Action unknown"
    ELSE IF ReturnsWrapper(method) /\ ~HasGeneric(method) THEN "MissingGeneric"
    ELSE ""

LoadErrors == {"No controller registered", "Action unknown", "MissingGeneric"}

\* C19: a handler in which loadTypes fails leaves the type cache and the
\* three tables as they were and does not invoke the method; the cache never
\* holds an entry for a (controller, method) that cannot be typed, so the
\* next call for it fails with the same error.
C19_FailedLoadLeavesNoTrace ==
    /\ [](\A controller \in ControllerIds, method \in Methods :
            LoadError(controller, method) # ""
                => /\ CacheId(controller, method) \notin DOMAIN cachedActionsTypes
                   /\ loadTypes(cachedActionsTypes, controller, method) =
                         [err |-> LoadError(controller, method),
                          cache |-> cachedActionsTypes])
    /\ [][(last'.op \in {"handleAction", "handleActionTypes"} /\ thrown' \in LoadErrors)
            => /\ cachedActionsTypes' = cachedActionsTypes
               /\ tables' = tables
               /\ <<subs, src, coll>>' = <<subs, src, coll>>
               /\ sent' = <<>>
               /\ last'.op = "handleAction"
                     => /\ ~call'[last'.id].invoked
                        /\ pc'[last'.id] = "done"]_vars

\* C19 witness: an Action for a method that returns a wrapper without element
\* type failed in loadTypes, and the cache holds no entry that cannot be typed.
C19_Witness ==
    /\ last.op = "handleAction"
    /\ thrown = "MissingGeneric"
    /\ ~call[last.id].invoked
    /\ \A k \in DOMAIN cachedActionsTypes : LoadError(k[1], k[2]) = ""


ControlOps ==
    {"ActionObservableSubscribe", "ActionObservableUnsubscribe",
     "ActionObservableSubjectUnsubscribe", "ResponseActionCollectionUnsubscribe"}

\* C20: a control message for a call id whose handleAction is suspended at
\* its await is answered with one Error frame ('No observable found', 'No
\* collection found') and changes no table, subscription, source or
\* collection.
C20_ControlDuringAwaitIsError ==
    [][\A c \in CallIds :
        (pc[c] = "await" /\ last'.id = c /\ last'.op \in ControlOps)
            => /\ Len(sent') = 1
               /\ sent'[1].type = "Error"
               /\ sent'[1].msg \in {"No observable found", "No collection found"}
               /\ tables' = tables
               /\ <<subs, src, coll, pc, call>>' = <<subs, src, coll, pc, call>>]_vars

====
